---- MODULE Spec2Model ----
(***************************************************************************)
(* SingleRoIExtractor (mmdet/models/roi_heads/roi_extractors/              *)
(* single_level_roi_extractor.py): scale-based routing of RoIs to pyramid  *)
(* levels, per-level pooling and reassembly in input order.                *)
(*                                                                         *)
(* Numbers.  Box coordinates are integers in units of 1/EpsInv pixel       *)
(* (EpsInv = 10^6, the inverse of the 1e-6 of map_roi_levels), and the     *)
(* real-valued comparisons of map_roi_levels are decided exactly on these  *)
(* rationals.  The code computes in float32; rounding effects below one    *)
(* unit are not modelled.  RoI indices are 1-based here (0-based in the    *)
(* code); level indices are 0-based as in the code.                        *)
(*                                                                         *)
(* Further down: OpenVINODetectionTask.optimize (openvino_task.py) and     *)
(* patch_config (config_utils.py), each with a specification of its own.   *)
(***************************************************************************)
EXTENDS Integers, Sequences, FiniteSets, TLC

VARIABLES
    ctor,              \* "new" | "ok" | "rejected": outcome of __init__
    featmap_strides,   \* constructor argument; one roi_layer per stride
    finest_scale,      \* self.finest_scale
    nan_long,          \* what this build's `.long()` makes of NaN
    pc,                \* position inside forward
    arg_rois,          \* the caller's rois argument of the current call
    roi_scale_factor,  \* the caller's roi_scale_factor (NoFactor = None)
    rois,              \* forward's local `rois` (rebound by roi_rescale)
    target_lvls,       \* forward's local target_lvls
    level,             \* loop variable of the per-level loop
    indices,           \* forward's list `indices` (one entry per level)
    roi_feats,         \* forward's list `roi_feats`
    calls,             \* log of the pooler calls made by this forward
    result,            \* the returned tensor (a sequence of rows)
    error,             \* the exception forward ended with, or "none"
    past,              \* the last call that ended, as its caller saw it
    \* OpenVINODetectionTask (mmdet/apis/ote/apis/detection/openvino_task.py)
    entities,          \* the ModelEntity objects, by identity
    task,              \* the task's attributes (model, inferencer, ...)
    optimize_call,     \* the last optimize call: arguments, state before,
                       \* how far it got and how it ended
    \* patch_config (mmdet/apis/ote/apis/detection/config_utils.py)
    config,            \* the mmcv Config object the caller holds
    patch_calls        \* the calls of patch_config on it so far: how many,
                       \* the config before the first, how the last ended

extractor_vars ==
    <<ctor, featmap_strides, finest_scale, nan_long, pc, arg_rois, roi_scale_factor,
      rois, target_lvls, level, indices, roi_feats, calls, result, error,
      past>>

openvino_vars == <<entities, task, optimize_call>>

config_vars == <<config, patch_calls>>

\* What the extractor's methods cannot touch.
outside_extractor == <<openvino_vars, config_vars>>

vars == <<extractor_vars, openvino_vars, config_vars>>

-----------------------------------------------------------------------------
(* Bounds and program constants *)

MaxRois == 2

MaxLevels == 3

EpsInv == 1000000

DefaultFinestScale == 56

\* The value an x86 build stores for NaN.long(): INT64_MIN.  It stands here
\* for -2^63, which is outside TLC's integers; only its being below every
\* level index is used.
LongMin == -2147483647

\* Casting NaN to an integer is undefined: x86 CPU builds store INT64_MIN,
\* CUDA and ARM builds 0.
NaNAsLong == {LongMin, 0}

NoFactor == 0

NotComputed == <<-1>>

Px(p) == p * EpsInv

-----------------------------------------------------------------------------
(* Inputs *)

\* Boxes <<x1, y1, x2, y2>>: zero area, 10x10, scale 111.999, scale
\* 111.99995, scale exactly 112 (56 x 224), scale 224, scale 500, and a
\* malformed box with x2 < x1.
Boxes ==
    { <<0, 0, 0, 0>>,
      <<0, 0, Px(10), Px(10)>>,
      <<0, 0, 111999000, 111999000>>,
      <<0, 0, 111999950, 111999950>>,
      <<0, 0, Px(56), Px(224)>>,
      <<0, 0, Px(224), Px(224)>>,
      <<0, 0, Px(500), Px(500)>>,
      <<Px(10), 0, 0, Px(10)>> }

\* RoI <<batch_index, x1, y1, x2, y2>>.  The batch index doubles as the
\* identifier embedded in each RoI: RoI number i carries i.
RoISeqsOf(boxes) ==
    UNION { { [i \in 1..n |-> <<i>> \o b[i]] : b \in [1..n -> boxes] }
            : n \in 0..MaxRois }

RoISeqs == RoISeqsOf(Boxes)

ScaleFactors == {NoFactor, 2}

FinestScales == {DefaultFinestScale, 28}

StrideSeqs == { [l \in 1..k |-> 4 * (2 ^ (l - 1))] : k \in 0..MaxLevels }

\* feats: one feature map per configured level, tagged by its level.
Feats(k) == [l \in 1..k |-> l - 1]

-----------------------------------------------------------------------------
(* map_roi_levels *)

Abs(x) == IF x < 0 THEN 0 - x ELSE x

\* The sign of a/b - c/d for a, c >= 0 and b, d > 0, by comparing integer
\* parts and then the reciprocals of the remainders (no products, so no
\* overflow of TLC's 32-bit integers).
RECURSIVE CmpFrac(_, _, _, _)
CmpFrac(a, b, c, d) ==
    LET qa == a \div b
        qc == c \div d
        ra == a % b
        rc == c % d
    IN  IF qa # qc THEN (IF qa < qc THEN -1 ELSE 1)
        ELSE IF ra = 0 /\ rc = 0 THEN 0
        ELSE IF ra = 0 THEN -1
        ELSE IF rc = 0 THEN 1
        ELSE CmpFrac(d, rc, b, ra)

\* sqrt(w * h) >= t, for w * h >= 0.
SqrtGeq(w, h, t) ==
    IF t <= 0 THEN TRUE
    ELSE IF w = 0 \/ h = 0 THEN FALSE
    ELSE CmpFrac(Abs(w), t, t, Abs(h)) >= 0

Width(r) == r[4] - r[2]

Height(r) == r[5] - r[3]

\* torch.sqrt of a negative product is NaN, and NaN survives the division,
\* the addition, log2, floor and clamp that follow.
ScaleIsNaN(r) ==
    \/ Width(r) < 0 /\ Height(r) > 0
    \/ Width(r) > 0 /\ Height(r) < 0

\* Mutant: the comparison without the 1e-6 term.
ScaleRatioGeqPow2NoEps(r, fs, l) ==
    SqrtGeq(Width(r), Height(r), fs * ((2 ^ l) * EpsInv))

\* scale / finest_scale + 1e-6 >= 2^l, for l >= 0:
\* sqrt(w*h)/(EpsInv*fs) + 1/EpsInv >= 2^l  <=>  sqrt(w*h) >= fs*(2^l*EpsInv - 1).
ScaleRatioGeqPow2(r, fs, l) ==
    SqrtGeq(Width(r), Height(r), fs * ((2 ^ l) * EpsInv - 1))

RECURSIVE FloorLog2From(_, _, _)
FloorLog2From(r, fs, l) ==
    IF ScaleRatioGeqPow2(r, fs, l + 1) THEN FloorLog2From(r, fs, l + 1) ELSE l

\* floor(log2(scale / finest_scale + 1e-6)).  Exact when the result is >= 0;
\* a negative result (between -20 and -1) is returned as -1, since the only
\* use of the value is the clamp(min=0) that follows.
FloorLog2(r, fs) ==
    IF ScaleRatioGeqPow2(r, fs, 0) THEN FloorLog2From(r, fs, 0) ELSE -1

Clamp(v, lo, hi) ==
    LET up == IF v < lo THEN lo ELSE v
    IN  IF up > hi THEN hi ELSE up

\* Lines 56-59 for one RoI; nanl is the build's NaN.long().
RoiLevel(r, num_levels, fs, nanl) ==
    IF ScaleIsNaN(r)
    THEN nanl
    ELSE Clamp(FloorLog2(r, fs), 0, num_levels - 1)

map_roi_levels(rs, num_levels, fs, nanl) ==
    [i \in 1..Len(rs) |-> RoiLevel(rs[i], num_levels, fs, nanl)]

-----------------------------------------------------------------------------
(* Collaborators of forward *)

\* BaseRoIExtractor.roi_rescale: scale width and height about the centre.
roi_rescale(rs, f) ==
    [i \in 1..Len(rs) |->
        LET r   == rs[i]
            cx == (r[2] + r[4]) \div 2
            cy == (r[3] + r[5]) \div 2
            hw == (Width(r) * f) \div 2
            hh == (Height(r) * f) \div 2
        IN  <<r[1], cx - hw, cy - hh, cx + hw, cy + hh>>]

\* A level pooler that returns: one row per RoI of the subset, in the order
\* given; the row records the feature map and the box it was pooled from.
RoILayer(feat, level_rois) ==
    [j \in 1..Len(level_rois) |-> <<feat, level_rois[j]>>]

\* topk(x, k, dim=0, largest=False)[1]: the positions of the k smallest
\* values of x, smallest first.
topk(x, k) ==
    [j \in 1..k |->
        CHOOSE i \in 1..Len(x) :
            Cardinality({m \in 1..Len(x) :
                x[m] < x[i] \/ (x[m] = x[i] /\ m < i)}) = j - 1]

\* torch.nonzero((target_lvls == level).int()).view(-1): ascending positions.
RECURSIVE NonzeroFrom(_, _, _)
NonzeroFrom(t, lvl, i) ==
    IF i > Len(t) THEN <<>>
    ELSE (IF t[i] = lvl THEN <<i>> ELSE <<>>) \o NonzeroFrom(t, lvl, i + 1)

Nonzero(t, lvl) == NonzeroFrom(t, lvl, 1)

\* rois[level_indices]
IndexSelect(rs, idx) == [j \in 1..Len(idx) |-> rs[idx[j]]]

\* torch.cat(list, dim=0) of a non-empty list
RECURSIVE Cat(_)
Cat(list) == IF list = <<>> THEN <<>> ELSE Head(list) \o Cat(Tail(list))

-----------------------------------------------------------------------------
(* Construction *)

\* Mutant: a base __init__ that accepts any featmap_strides.
BaseRoIExtractorInitAcceptAll(strides) == "ok"

\* BaseRoIExtractor.__init__ builds one roi_layer per stride and rejects a
\* configuration without levels.
BaseRoIExtractorInit(strides) ==
    IF Len(strides) < 1 THEN "rejected" ELSE "ok"

\* SingleRoIExtractor.__init__: the base class's __init__ decides.
SingleRoIExtractorInit(strides) == BaseRoIExtractorInit(strides)

\* No OpenVINO task exists.
NoTask == [model |-> 0]

NoCall == [outcome |-> "none"]

\* No config has been loaded.
NoConfig == [keys |-> {}]

NoPatchCalls == [n |-> 0]

ExtractorInit ==
    /\ ctor = "new"
    /\ featmap_strides \in StrideSeqs
    /\ finest_scale \in FinestScales
    /\ nan_long \in NaNAsLong
    /\ pc = "idle"
    /\ arg_rois = <<>>
    /\ roi_scale_factor = NoFactor
    /\ rois = <<>>
    /\ target_lvls = NotComputed
    /\ level = 0
    /\ indices = <<>>
    /\ roi_feats = <<>>
    /\ calls = <<>>
    /\ result = <<>>
    /\ error = "none"
    /\ past = <<>>

Init ==
    /\ ExtractorInit
    /\ entities = <<>>
    /\ task = NoTask
    /\ optimize_call = NoCall
    /\ config = NoConfig
    /\ patch_calls = NoPatchCalls

Construct ==
    /\ ctor = "new"
    /\ ctor' = SingleRoIExtractorInit(featmap_strides)
    /\ error' = IF ctor' = "rejected" THEN "ConfigError" ELSE "none"
    /\ UNCHANGED outside_extractor
    /\ UNCHANGED <<featmap_strides, finest_scale, nan_long, pc, arg_rois,
                   roi_scale_factor, rois, target_lvls, level, indices,
                   roi_feats, calls, result, past>>

-----------------------------------------------------------------------------
(* forward *)

\* The caller passes one feature map per configured level.
NumLevels == Len(featmap_strides)

\* The rois the per-level loop selects from (lines 72-73).
RescaledRois(rs, f) == IF f # NoFactor THEN roi_rescale(rs, f) ELSE rs

\* Mutant: the single-level path rescales like the multi-level path.
SingleLevelRoisRescaled(rs, f) == RescaledRois(rs, f)

\* The rois handed to roi_layers[0] when len(feats) == 1 (line 68).
SingleLevelRois(rs, f) == rs

\* Mutant: levels computed after the rescale.
RoutedRoisAfterRescale(rs, f) == RescaledRois(rs, f)

\* The boxes map_roi_levels is given (line 71: before the rescale).
RoutedRois(rs, f) == rs

\* len(feats) == 1: one call of roi_layers[0] on the caller's rois, for a
\* call with rois in seqs and roi_scale_factor in factors.
ForwardSingleOn(seqs, factors) ==
    /\ ctor = "ok"
    /\ pc = "idle"
    /\ NumLevels = 1
    /\ \E rs \in seqs, f \in factors, ok \in BOOLEAN :
        /\ arg_rois' = rs
        /\ roi_scale_factor' = f
        /\ rois' = SingleLevelRois(rs, f)
        /\ calls' = <<[level |-> 0, feat |-> Feats(NumLevels)[1],
                       rois |-> rois', raised |-> ~ok]>>
        /\ IF ok
           THEN /\ result' = RoILayer(Feats(NumLevels)[1], rois')
                /\ pc' = "returned"
                /\ error' = "none"
           ELSE /\ result' = <<>>
                /\ pc' = "raised"
                /\ error' = "PoolerError"
    /\ UNCHANGED outside_extractor
    /\ UNCHANGED <<ctor, featmap_strides, finest_scale, nan_long, target_lvls, level,
                   indices, roi_feats, past>>

ForwardSingle == ForwardSingleOn(RoISeqs, ScaleFactors)

\* Mutant: the two lists live on across calls instead of being created anew.
LoopListsKept(old_indices, old_roi_feats) ==
    [indices |-> old_indices, roi_feats |-> old_roi_feats]

\* Lines 75-76: roi_feats and indices are new empty lists in every call,
\* whatever an earlier call left behind.
LoopLists(old_indices, old_roi_feats) ==
    [indices |-> <<>>, roi_feats |-> <<>>]

\* Lines 70-76, for a call with rois in seqs and roi_scale_factor in factors.
ForwardMultiOn(seqs, factors) ==
    /\ ctor = "ok"
    /\ pc = "idle"
    /\ NumLevels # 1
    /\ \E rs \in seqs, f \in factors :
        /\ arg_rois' = rs
        /\ roi_scale_factor' = f
        /\ target_lvls' =
               map_roi_levels(RoutedRois(rs, f), NumLevels, finest_scale,
                              nan_long)
        /\ rois' = RescaledRois(rs, f)
    /\ indices' = LoopLists(indices, roi_feats).indices
    /\ roi_feats' = LoopLists(indices, roi_feats).roi_feats
    /\ level' = 0
    /\ pc' = "loop"
    /\ UNCHANGED outside_extractor
    /\ UNCHANGED <<ctor, featmap_strides, finest_scale, nan_long, calls, result, error,
                   past>>

ForwardMulti == ForwardMultiOn(RoISeqs, ScaleFactors)

\* One iteration of the loop of lines 77-87.  The level's indices are
\* appended before the pooler is called; a pooler's exception is swallowed by
\* `except: pass` and the loop goes on with the next level.
LevelBody(lvl) ==
    /\ LET level_indices == Nonzero(target_lvls, lvl)
           level_rois    == IndexSelect(rois, level_indices)
           feat          == Feats(NumLevels)[lvl + 1]
       IN  /\ indices' = Append(indices, level_indices)
           /\ \E ok \in BOOLEAN :
                /\ calls' = Append(calls, [level |-> lvl, feat |-> feat,
                                           rois |-> level_rois, raised |-> ~ok])
                /\ IF ok
                   THEN /\ roi_feats' = Append(roi_feats, RoILayer(feat, level_rois))
                        /\ level' = level + 1
                        /\ UNCHANGED <<pc, error>>
                   ELSE /\ level' = level + 1
                        /\ UNCHANGED <<roi_feats, pc, error>>
    /\ UNCHANGED outside_extractor
    /\ UNCHANGED <<ctor, featmap_strides, finest_scale, nan_long, arg_rois,
                   roi_scale_factor, rois, target_lvls, result, past>>

\* The loop of lines 77-87 takes the levels in ascending order.
ForwardLevel ==
    /\ pc = "loop"
    /\ level < NumLevels
    /\ LevelBody(level)

\* Lines 90-93 as a function of the two lists the loop built.  torch.cat of
\* an empty list raises; indexing past the last row raises.
ReassembleUnsorted(idx_list, feat_list) ==
    IF feat_list = <<>>
    THEN [pc |-> "raised", error |-> "CatError", result |-> <<>>]
    ELSE [pc |-> "returned", error |-> "", result |-> Cat(feat_list)]

Reassemble(idx_list, feat_list) ==
    LET cat_indices == Cat(idx_list)
        k           == Len(cat_indices)
        order       == topk(cat_indices, k)
    IN  IF feat_list = <<>>
        THEN [pc |-> "raised", error |-> "CatError", result |-> <<>>]
        ELSE LET cat_feats == Cat(feat_list)
             IN  IF \E j \in 1..k : order[j] > Len(cat_feats)
                 THEN [pc |-> "raised", error |-> "IndexError", result |-> <<>>]
                 ELSE [pc |-> "returned", error |-> "",
                       result |-> [j \in 1..k |-> cat_feats[order[j]]]]

\* Lines 90-95.
ForwardReassemble ==
    /\ pc = "loop"
    /\ level = NumLevels
    /\ LET out == Reassemble(indices, roi_feats)
       IN  /\ pc' = out.pc
           /\ IF out.pc = "returned"
              THEN result' = out.result /\ UNCHANGED error
              ELSE error' = out.error /\ UNCHANGED result
    /\ UNCHANGED outside_extractor
    /\ UNCHANGED <<ctor, featmap_strides, finest_scale, nan_long, arg_rois,
                   roi_scale_factor, rois, target_lvls, level, indices,
                   roi_feats, calls, past>>

Next ==
    \/ Construct
    \/ ForwardSingle
    \/ ForwardMulti
    \/ ForwardLevel
    \/ ForwardReassemble

Spec == Init /\ [][Next]_vars

-----------------------------------------------------------------------------
(* The per-level iterations of forward taken in any order *)

\* The iterations of the loop of lines 77-87 read only feats, rois and
\* target_lvls, which the loop does not write.  This specification runs the
\* same loop body for the levels in every order; each iteration is one step,
\* as the pooler call of line 84 returns before line 85 appends its batch.
\* The reassembly keeps its guard: it starts once every level has been taken.

\* One box per level 0, 1, 2 and the malformed box.
AnyOrderBoxes ==
    { <<0, 0, Px(10), Px(10)>>,
      <<0, 0, Px(56), Px(224)>>,
      <<0, 0, Px(224), Px(224)>>,
      <<Px(10), 0, 0, Px(10)>> }

LevelsTaken == { calls[j].level : j \in 1..Len(calls) }

InitAnyOrder == Init /\ finest_scale = DefaultFinestScale

ForwardMultiAnyOrder == ForwardMultiOn(RoISeqsOf(AnyOrderBoxes), {NoFactor})

ForwardLevelAnyOrder ==
    /\ pc = "loop"
    /\ level < NumLevels
    /\ \E lvl \in (0..(NumLevels - 1)) \ LevelsTaken : LevelBody(lvl)

NextAnyOrder ==
    \/ Construct
    \/ ForwardSingle
    \/ ForwardMultiAnyOrder
    \/ ForwardLevelAnyOrder
    \/ ForwardReassemble

SpecAnyOrder == InitAnyOrder /\ [][NextAnyOrder]_vars

-----------------------------------------------------------------------------
(* forward called again and again on the same extractor *)

\* The outcome of the call as forward's statements leave it.
Outcome ==
    [pc |-> pc,
     error |-> IF pc = "returned" THEN "" ELSE error,
     result |-> IF pc = "returned" THEN result ELSE <<>>]

\* Line 95 (or the exception leaving forward): control is back with the
\* caller, who still holds the extractor, feats and rois.  What the caller
\* saw of the call is kept in past; the locals of the call are dead, and
\* their last values stay in place until the next call initialises them.
ForwardReturn ==
    /\ pc \in {"returned", "raised"}
    /\ past' = <<[featmap_strides |-> featmap_strides,
                  finest_scale |-> finest_scale,
                  arg_rois |-> arg_rois,
                  roi_scale_factor |-> roi_scale_factor,
                  target_lvls |-> target_lvls,
                  calls |-> calls,
                  outcome |-> Outcome]>>
    /\ pc' = "idle"
    /\ calls' = <<>>
    /\ result' = <<>>
    /\ error' = "none"
    /\ UNCHANGED outside_extractor
    /\ UNCHANGED <<ctor, featmap_strides, finest_scale, nan_long, arg_rois,
                   roi_scale_factor, rois, target_lvls, level, indices,
                   roi_feats>>

\* The first call takes any input; every later call is given the rois and
\* the roi_scale_factor the caller passed before, as the caller holds them
\* now.
RepeatRois ==
    IF past = <<>> THEN RoISeqsOf(AnyOrderBoxes) ELSE {arg_rois}

RepeatFactors ==
    IF past = <<>> THEN ScaleFactors ELSE {roi_scale_factor}

ForwardSingleRepeat == ForwardSingleOn(RepeatRois, RepeatFactors)

ForwardMultiRepeat == ForwardMultiOn(RepeatRois, RepeatFactors)

NextRepeat ==
    \/ Construct
    \/ ForwardSingleRepeat
    \/ ForwardMultiRepeat
    \/ ForwardLevel
    \/ ForwardReassemble
    \/ ForwardReturn

SpecRepeat == Init /\ [][NextRepeat]_vars

-----------------------------------------------------------------------------
(* OpenVINODetectionTask.optimize (mmdet/apis/ote/apis/detection/          *)
(* openvino_task.py)                                                       *)

\* The number of ModelEntity objects in existence.
MaxModels == 3

ModelIds == 1..MaxModels

DataKeys == {"openvino.xml", "openvino.bin", "confidence_threshold"}

\* get_data of a key that was never set raises KeyError.
NoData == [as |-> "absent"]

\* The two networks: as exported, and with FakeQuantize nodes inserted.
FloatNet ==
    [xml |-> [as |-> "file", nodes |-> "float"],
     bin |-> [as |-> "file", weights |-> "fp32"]]

QuantizedNet ==
    [xml |-> [as |-> "file", nodes |-> "float+FakeQuantize"],
     bin |-> [as |-> "file", weights |-> "int8"]]

\* Thresholds carry their representation: a Python float of the hyper
\* parameters, a numpy float32, or the four bytes of a float32.
HparamsThreshold == [as |-> "float", v |-> 35]

StoredThreshold == [as |-> "bytes", v |-> 50]

\* np.array([x], dtype=np.float32).tobytes() (line 273)
ToBytes(x) == [as |-> "bytes", v |-> x.v]

\* np.frombuffer(b, dtype=np.float32)[0] (line 148)
FromBuffer(b) == [as |-> "float32", v |-> b.v]

\* A ModelEntity nobody has written to yet.
NewEntity(status) ==
    [model_status |-> status,
     data |-> [k \in DataKeys |-> NoData],
     model_format |-> "unset",
     optimization_type |-> "unset",
     optimization_methods |-> <<>>,
     precision |-> <<>>]

\* A ModelEntity holding an exported network, with or without a stored
\* confidence threshold.
ExportedEntity(net, threshold) ==
    [NewEntity("SUCCESS") EXCEPT
        !.data = [k \in DataKeys |->
                     CASE k = "openvino.xml" -> net.xml
                       [] k = "openvino.bin" -> net.bin
                       [] OTHER -> threshold],
        !.model_format = "OPENVINO"]

\* OpenVINODetectionInferencer(hparams, labels, model_file, weight_file)
\* (lines 69-101): the inferencer is made of the two files and of the
\* postprocessing parameters of hparams.
OpenVINODetectionInferencer(hparams_threshold, model_file, weight_file) ==
    [model_file |-> model_file, weight_file |-> weight_file,
     confidence_threshold |-> hparams_threshold]

\* load_inferencer (lines 144-155) on task t: sets the task's and the
\* hyper parameters' confidence threshold, then builds the inferencer from
\* the data of the task's model.  `built` is false when the construction of
\* the inferencer raises.  The caller assigns the returned inferencer.
load_inferencer(t, ents, built) ==
    LET data   == ents[t.model].data
        stored == data["confidence_threshold"]
        t1     == IF stored # NoData
                  THEN [t EXCEPT !.confidence_threshold = FromBuffer(stored),
                                 !.hparams_threshold = FromBuffer(stored)]
                  ELSE [t EXCEPT !.confidence_threshold = t.hparams_threshold]
    IN  IF data["openvino.xml"] = NoData \/ data["openvino.bin"] = NoData
        THEN [task |-> t1, raised |-> "KeyError", inferencer |-> NoData]
        ELSE IF ~built
        THEN [task |-> t1, raised |-> "InferencerError", inferencer |-> NoData]
        ELSE [task |-> t1, raised |-> "none",
              inferencer |->
                  OpenVINODetectionInferencer(t1.hparams_threshold,
                                              data["openvino.xml"],
                                              data["openvino.bin"])]

\* __init__ (lines 131-138) on the environment's model.
OpenVINODetectionTaskInit(ents, model_id) ==
    LET t0 == [model |-> model_id,
               confidence_threshold |-> [as |-> "float", v |-> 0],
               hparams_threshold |-> HparamsThreshold,
               inferencer |-> NoData]
        li == load_inferencer(t0, ents, TRUE)
    IN  [li.task EXCEPT !.inferencer = li.inferencer]

\* After construction: entity 1 is the environment's model, exported as a
\* float or as an already quantized network; the other entities are new.
InitOptimize ==
    /\ ExtractorInit
    /\ featmap_strides = <<>>
    /\ finest_scale = DefaultFinestScale
    /\ nan_long = 0
    /\ \E net \in {FloatNet, QuantizedNet},
          threshold \in {NoData, StoredThreshold},
          status \in [ModelIds \ {1} -> {"NOT_READY", "SUCCESS", "FAILED"}] :
        /\ entities = [m \in ModelIds |->
                          IF m = 1 THEN ExportedEntity(net, threshold)
                          ELSE NewEntity(status[m])]
        /\ task = OpenVINODetectionTaskInit(entities, 1)
    /\ optimize_call = NoCall
    /\ config = NoConfig
    /\ patch_calls = NoPatchCalls

OptimizationTypes == {"POT", "NNCF"}

\* The calls into the optimisation library and the inferencer that may
\* raise, in the order optimize makes them.
FailurePoints == {"load_model", "pipeline.run", "save_model", "load_inferencer"}

\* get_nodes_by_type(model, ['FakeQuantize']) is not empty (line 238).
HasFakeQuantize(model) == model.xml.nodes = "float+FakeQuantize"

\* pipeline.run and compress_model_weights (lines 263-265): the default
\* quantisation inserts FakeQuantize nodes and stores int8 weights.
Quantize(model) == QuantizedNet

\* Lines 267-280: the three set_data calls and the model attributes.
WriteOutput(e, compressed_model, threshold) ==
    [e EXCEPT
        !.data = [k \in DataKeys |->
                     CASE k = "openvino.xml" -> compressed_model.xml
                       [] k = "openvino.bin" -> compressed_model.bin
                       [] OTHER -> ToBytes(threshold)],
        !.model_status = "SUCCESS",
        !.model_format = "OPENVINO",
        !.optimization_type = "POT",
        !.optimization_methods = <<"QUANTIZATION">>,
        !.precision = <<"INT8">>]

\* Mutant: an already quantized model is marked FAILED and also replaces the
\* task's model.
AlreadyOptimizedReplacing(ents, t, output_model) ==
    [entities |-> [ents EXCEPT ![output_model].model_status = "FAILED"],
     task |-> [t EXCEPT !.model = output_model],
     outcome |-> "returned", reached |-> "FakeQuantize"]

\* Lines 238-241.
AlreadyOptimized(ents, t, output_model) ==
    [entities |-> [ents EXCEPT ![output_model].model_status = "FAILED"],
     task |-> t,
     outcome |-> "returned", reached |-> "FakeQuantize"]

\* optimize (lines 210-286) as a function of the state it starts in, its
\* arguments and the first call that raises (fail_at).  `reached` names the
\* last stage the call got to.
optimize(ents, t, optimization_type, output_model, fail_at) ==
    IF optimization_type # "POT"
    THEN [entities |-> ents, task |-> t,
          outcome |-> "ValueError", reached |-> "type check"]
    ELSE IF fail_at = "load_model"
    THEN [entities |-> ents, task |-> t,
          outcome |-> "load_model", reached |-> "load_model"]
    ELSE
    LET model == [xml |-> ents[t.model].data["openvino.xml"],
                  bin |-> ents[t.model].data["openvino.bin"]]
    IN  IF HasFakeQuantize(model)
        THEN AlreadyOptimized(ents, t, output_model)
        ELSE IF fail_at = "pipeline.run"
        THEN [entities |-> ents, task |-> t,
              outcome |-> "pipeline.run", reached |-> "pipeline.run"]
        ELSE IF fail_at = "save_model"
        THEN [entities |-> ents, task |-> t,
              outcome |-> "save_model", reached |-> "save_model"]
        ELSE
        LET ents1 == [ents EXCEPT ![output_model] =
                         WriteOutput(@, Quantize(model),
                                     t.confidence_threshold)]
            t1    == [t EXCEPT !.model = output_model]
            li    == load_inferencer(t1, ents1, fail_at # "load_inferencer")
        IN  IF li.raised # "none"
            THEN [entities |-> ents1, task |-> li.task,
                  outcome |-> li.raised, reached |-> "load_inferencer"]
            ELSE [entities |-> ents1,
                  task |-> [li.task EXCEPT !.inferencer = li.inferencer],
                  outcome |-> "returned", reached |-> "end"]

\* One call of optimize.  The caller passes as output_model an entity other
\* than the task's current model.
Optimize ==
    \E optimization_type \in OptimizationTypes,
       output_model \in ModelIds \ {task.model},
       fail_at \in FailurePoints \cup {"none"} :
        LET after == optimize(entities, task, optimization_type,
                              output_model, fail_at)
        IN  /\ entities' = after.entities
            /\ task' = after.task
            /\ optimize_call' =
                   [optimization_type |-> optimization_type,
                    output_model |-> output_model,
                    entities |-> entities,
                    task |-> task,
                    outcome |-> after.outcome,
                    reached |-> after.reached]
            /\ UNCHANGED <<extractor_vars, config_vars>>

NextOptimize == Optimize

SpecOptimize == InitOptimize /\ [][NextOptimize]_vars

-----------------------------------------------------------------------------
(* patch_config (mmdet/apis/ote/apis/detection/config_utils.py)            *)

\* A config is a record: `keys` is the set of top-level keys present
\* (`'runner' in config`), the other fields hold the values of the keys
\* that patch_config reads or writes.  The field of an absent key holds a
\* fixed filler.  Names are sequences of their words, so that
\* `'Epoch' in name` is a search.

\* The longest custom_hooks list a config is loaded with.
MaxHooks == 2

EpochBasedRunner == <<"Epoch", "Based", "Runner">>

IterBasedRunner == <<"Iter", "Based", "Runner">>

EpochRunnerWithCancel == <<"Epoch", "Runner", "With", "Cancel">>

IterBasedRunnerWithCancel == <<"Iter", "Based", "Runner", "With", "Cancel">>

\* A runner registered by the user.
CustomRunner == <<"Accelerated", "Runner">>

RunnerTypes ==
    {EpochBasedRunner, IterBasedRunner, EpochRunnerWithCancel,
     IterBasedRunnerWithCancel, CustomRunner}

AbsentRunner == [type |-> <<>>, keys |-> {}, max_epochs |-> 0]

\* A runner section, with or without max_epochs.
Runners ==
    { [type |-> t, keys |-> {"type", "max_epochs"}, max_epochs |-> 12]
        : t \in RunnerTypes }
    \cup { [type |-> t, keys |-> {"type"}, max_epochs |-> 0]
               : t \in RunnerTypes }

\* Hooks read from a config file are ConfigDict objects.
LoadedHooks ==
    { [type |-> t, as |-> "ConfigDict"]
        : t \in {"CancelTrainingHook", "NumClassCheckHook"} }

HookLists == UNION { [1..n -> LoadedHooks] : n \in 0..MaxHooks }

AbsentData == [type |-> "", to_rgb |-> FALSE, classes |-> "unset"]

LoadedData == [type |-> "CocoDataset", to_rgb |-> TRUE, classes |-> "unset"]

\* The configs patch_config is first called on.
Configs ==
    { [keys |-> (IF r = AbsentRunner THEN {} ELSE {"runner"})
                 \cup (IF te = 0 THEN {} ELSE {"total_epochs"})
                 \cup (IF hk THEN {"custom_hooks"} ELSE {})
                 \cup (IF d = AbsentData THEN {} ELSE {"data"})
                 \cup pl,
       runner |-> r,
       total_epochs |-> te,
       custom_hooks |-> h,
       data |-> d]
        : r \in Runners \cup {AbsentRunner},
          te \in {0, 12, 24},
          hk \in BOOLEAN,
          h \in HookLists,
          d \in {AbsentData, LoadedData},
          pl \in {{}, {"train_pipeline", "test_pipeline"}} }

\* A config without custom_hooks has no hook list.
LoadableConfigs ==
    { c \in Configs : "custom_hooks" \notin c.keys => c.custom_hooks = <<>> }

\* is_epoch_based_runner (lines 34-35): 'Epoch' in runner_config.type
is_epoch_based_runner(runner_config) ==
    \E i \in 1..Len(runner_config.type) : runner_config.type[i] = "Epoch"

\* remove_from_config (lines 268-275) of a top-level key.
remove_from_config(cfg, key) == [cfg EXCEPT !.keys = @ \ {key}]

\* Lines 40-41.
DefaultRunner(cfg) ==
    IF "runner" \notin cfg.keys
    THEN [cfg EXCEPT !.keys = @ \cup {"runner"},
                     !.runner = [type |-> EpochBasedRunner,
                                 keys |-> {"type"}, max_epochs |-> 0]]
    ELSE cfg

\* Line 47 reads config.runner.max_epochs; a ConfigDict raises
\* AttributeError for a key it does not have.
MaxEpochsMissing(cfg) ==
    /\ "total_epochs" \in cfg.keys
    /\ is_epoch_based_runner(cfg.runner)
    /\ "max_epochs" \notin cfg.runner.keys

\* Lines 45-52.
TotalEpochs(cfg) ==
    IF "total_epochs" \in cfg.keys
    THEN LET c == IF is_epoch_based_runner(cfg.runner)
                  THEN [cfg EXCEPT !.runner.max_epochs = cfg.total_epochs]
                  ELSE cfg
         IN  [remove_from_config(c, "total_epochs") EXCEPT !.total_epochs = 0]
    ELSE cfg

\* Lines 55-60.
RunnerWithCancel(cfg) ==
    [cfg EXCEPT !.runner.type =
        IF is_epoch_based_runner(cfg.runner)
        THEN EpochRunnerWithCancel
        ELSE IterBasedRunnerWithCancel]

\* Lines 63-64.
DefaultHooks(cfg) ==
    IF "custom_hooks" \notin cfg.keys
    THEN [cfg EXCEPT !.keys = @ \cup {"custom_hooks"}, !.custom_hooks = <<>>]
    ELSE cfg

\* Line 65 reads hook.type of every entry; an entry that is a plain dict
\* (as appended by line 66) has no attribute `type`.
HookTypeUnreadable(cfg) ==
    \E i \in 1..Len(cfg.custom_hooks) : cfg.custom_hooks[i].as = "dict"

\* Mutant: the cancel hook is appended without looking at the list.
CancelHookAlways(cfg) ==
    [cfg EXCEPT !.custom_hooks =
        Append(@, [type |-> "CancelTrainingHook", as |-> "dict"])]

\* Lines 65-66.
CancelHook(cfg) ==
    IF \E i \in 1..Len(cfg.custom_hooks) :
           cfg.custom_hooks[i].type = "CancelTrainingHook"
    THEN cfg
    ELSE [cfg EXCEPT !.custom_hooks =
             Append(@, [type |-> "CancelTrainingHook", as |-> "dict"])]

\* patch_datasets (lines 237-265) on the data section: the dataset type,
\* and the colour conversion flag, which is negated.
patch_datasets(cfg) ==
    [cfg EXCEPT !.data.type = "OTEDataset", !.data.to_rgb = ~@]

\* Lines 75-95: log_config, evaluation, checkpoint_config, the class names,
\* gpu_ids, work_dir and seed.
PatchSettings(cfg) ==
    [cfg EXCEPT !.keys = @ \cup {"log_config", "evaluation",
                                  "checkpoint_config", "gpu_ids",
                                  "work_dir", "seed"},
                !.data.classes = "labels"]

\* patch_config (lines 38-95) as a function of the config it is given.
patch_config(cfg) ==
    LET c1 == DefaultRunner(cfg)
    IN  IF MaxEpochsMissing(c1)
        THEN [config |-> c1, outcome |-> "AttributeError", line |-> 47]
        ELSE
        LET c2 == DefaultHooks(RunnerWithCancel(TotalEpochs(c1)))
        IN  IF HookTypeUnreadable(c2)
            THEN [config |-> c2, outcome |-> "AttributeError", line |-> 65]
            ELSE
            LET c3 == remove_from_config(
                          remove_from_config(CancelHook(c2), "train_pipeline"),
                          "test_pipeline")
            IN  IF "data" \notin c3.keys
                THEN [config |-> c3, outcome |-> "AssertionError", line |-> 251]
                ELSE [config |-> PatchSettings(patch_datasets(c3)),
                      outcome |-> "returned", line |-> 95]

InitPatchConfig ==
    /\ ExtractorInit
    /\ featmap_strides = <<>>
    /\ finest_scale = DefaultFinestScale
    /\ nan_long = 0
    /\ entities = <<>>
    /\ task = NoTask
    /\ optimize_call = NoCall
    /\ config \in LoadableConfigs
    /\ patch_calls = NoPatchCalls

\* One call of patch_config on the config.  patch_calls counts 0, 1, and 2
\* for two or more.
PatchConfig ==
    LET after == patch_config(config)
    IN  /\ config' = after.config
        /\ patch_calls' =
               [n |-> IF patch_calls.n = 0 THEN 1 ELSE 2,
                first |-> IF patch_calls.n = 0 THEN config
                          ELSE patch_calls.first,
                outcome |-> after.outcome,
                line |-> after.line]
        /\ UNCHANGED <<extractor_vars, openvino_vars>>

NextPatchConfig == PatchConfig

SpecPatchConfig == InitPatchConfig /\ [][NextPatchConfig]_vars
-----------------------------------------------------------------------------
(* Properties of forward and map_roi_levels *)

Finished == pc \in {"returned", "raised"}

LoopDone == NumLevels > 1 /\ pc # "idle" /\ Len(indices) = NumLevels

\* A level pooler raised on a subset that was not empty.
FailedOnNonEmpty(c) == c.raised /\ c.rois # <<>>

\* C1: whenever forward returns, it returns exactly N rows and row i is the
\* pooled feature of rois[i]: it carries the identifier embedded in the
\* caller's i-th RoI.
C1_OrderPreserved ==
    pc = "returned" =>
        /\ Len(result) = Len(arg_rois)
        /\ \A i \in 1..Len(arg_rois) : result[i][2][1] = arg_rois[i][1]

\* C2: with more than one level, as soon as a pooler has failed on a level
\* with at least one assigned RoI, forward has ended with that pooler's
\* failure.
C2_PoolerFailurePropagates ==
    \A j \in 1..Len(calls) :
        (NumLevels > 1 /\ FailedOnNonEmpty(calls[j])) =>
            (pc = "raised" /\ error = "PoolerError")

\* What does hold of the code: a forward that swallowed a failure on a
\* non-empty level never returns; it ends in the reassembly's own error.
SkippedLevelNeverReturns ==
    (Finished /\ \E j \in 1..Len(calls) :
                    NumLevels > 1 /\ FailedOnNonEmpty(calls[j]))
        => (pc = "raised" /\ error \in {"IndexError", "CatError"})

\* C3: after the per-level loop the index subsets partition 1..N: their
\* sizes sum to N and every RoI index is in exactly one of them.
C3_TotalCoverage ==
    LoopDone =>
        /\ Len(Cat(indices)) = Len(arg_rois)
        /\ \A i \in 1..Len(arg_rois) :
              Cardinality({l \in 1..NumLevels :
                  \E p \in 1..Len(indices[l]) : indices[l][p] = i}) = 1

\* C4: every level map_roi_levels returns is in 0..num_levels-1, and a
\* malformed RoI (negative width*height) gets level 0.
C4_ValidLevel ==
    (NumLevels > 1 /\ pc # "idle") =>
        \A i \in 1..Len(target_lvls) :
            /\ target_lvls[i] \in 0..(NumLevels - 1)
            /\ ScaleIsNaN(arg_rois[i]) => target_lvls[i] = 0
WellFormed(r) == Width(r) >= 0 /\ Height(r) >= 0

\* scale >= t / EpsInv pixels
ScaleGeq(r, t) == SqrtGeq(Width(r), Height(r), t)

\* The lower end of band l, in units of 1/EpsInv pixel: finest_scale * 2^l
\* as documented, or finest_scale * (2^l - 1e-6).
BandStart(fs, l, shifted) ==
    IF shifted THEN fs * ((2 ^ l) * EpsInv - 1) ELSE fs * (2 ^ l) * EpsInv

\* RoI r with level t lies in the band of t, for num_levels levels.
InItsBand(r, t, num_levels, fs, shifted) ==
    /\ t \in 0..(num_levels - 1)
    /\ t >= 1 => ScaleGeq(r, BandStart(fs, t, shifted))
    /\ t <= num_levels - 2 => ~ScaleGeq(r, BandStart(fs, t + 1, shifted))

IsBox(r, b) == <<r[2], r[3], r[4], r[5]>> = b

\* With finest_scale = 56: scale exactly 112 (a 56 x 224 box) is level 1 and
\* scale 111.999 is level 0.
BoundaryExamples(r, t) ==
    finest_scale = DefaultFinestScale =>
        /\ IsBox(r, <<0, 0, Px(56), Px(224)>>) => t = 1
        /\ IsBox(r, <<0, 0, 111999000, 111999000>>) => t = 0

C6_SingleLevelBypass ==
    (NumLevels = 1 /\ pc # "idle") =>
        /\ Finished
        /\ Len(calls) = 1
        /\ calls[1].level = 0
        /\ calls[1].feat = Feats(1)[1]
        /\ calls[1].rois = arg_rois
        /\ target_lvls = NotComputed /\ indices = <<>> /\ roi_feats = <<>>
        /\ pc = "returned" =>
              /\ ~calls[1].raised
              /\ Len(result) = Len(arg_rois)
              /\ \A i \in 1..Len(arg_rois) : result[i] = <<0, arg_rois[i]>>
        /\ pc = "raised" => (calls[1].raised /\ error = "PoolerError")

\* A single-level call with a scale factor and two RoIs has returned.
C6_Witness ==
    /\ NumLevels = 1 /\ pc = "returned"
    /\ roi_scale_factor # NoFactor
    /\ Len(arg_rois) = 2
    /\ Width(arg_rois[1]) > 0

\* C7: with more than one level, every level with zero assigned RoIs has
\* contributed an empty index list and a zero-row batch; and when every RoI
\* is routed to level 0 and the level-0 pooler returned, forward returns N
\* rows in input order.
C7_EmptyLevelContributes ==
    NumLevels > 1 =>
        /\ Cardinality({p \in 1..Len(roi_feats) : roi_feats[p] = <<>>})
              = Cardinality({l \in 1..Len(indices) : indices[l] = <<>>})
        /\ (/\ Finished
            /\ \A i \in 1..Len(target_lvls) : target_lvls[i] = 0
            /\ ~calls[1].raised)
           => (pc = "returned" /\ C1_OrderPreserved)

\* C8: a finished forward with N = 0 has returned zero rows.
C8_EmptyRoisReturnEmpty ==
    (Finished /\ Len(arg_rois) = 0) => (pc = "returned" /\ result = <<>>)

\* C9: a configuration without levels is rejected by the constructor with a
\* configuration error, and no forward ever runs on it.
C9_EmptyConfigRejected ==
    (Len(featmap_strides) < 1 /\ ctor # "new") =>
        /\ ctor = "rejected"
        /\ error = "ConfigError"
        /\ pc = "idle"
        /\ calls = <<>>

C9_Witness == Len(featmap_strides) < 1 /\ ctor = "rejected"

\* C10: with more than one level, the levels are those map_roi_levels gives
\* the caller's boxes as passed in, whatever roi_scale_factor is, and every
\* level's pooler is called on the rescaled boxes of the RoIs routed to it.
C10_RoutingFromOriginal ==
    (NumLevels > 1 /\ pc # "idle") =>
        /\ target_lvls =
              map_roi_levels(arg_rois, NumLevels, finest_scale, nan_long)
        /\ \A j \in 1..Len(calls) :
              /\ calls[j].level = j - 1
              /\ calls[j].rois =
                    IndexSelect(RescaledRois(arg_rois, roi_scale_factor),
                                Nonzero(target_lvls, j - 1))

\* A rescaled call has finished in which some RoI's rescaled box lies in
\* another band than the box passed in, and its pooler got the rescaled box.
C10_Witness ==
    /\ NumLevels > 1 /\ pc = "returned"
    /\ roi_scale_factor # NoFactor
    /\ \E i \in 1..Len(arg_rois) :
          /\ rois[i] # arg_rois[i]
          /\ RoiLevel(rois[i], NumLevels, finest_scale, nan_long)
                 # RoiLevel(arg_rois[i], NumLevels, finest_scale, nan_long)
          /\ \E j \in 1..Len(calls), p \in 1..2 :
                p <= Len(calls[j].rois) /\ calls[j].rois[p] = rois[i]

RaisedAt(lvl) ==
    \E j \in 1..Len(calls) : calls[j].level = lvl /\ calls[j].raised

\* The two lists the loop of lines 77-87 builds when it takes the levels in
\* ascending order and the pooler of level lvl raises exactly when it did in
\* this execution.
RECURSIVE SequentialIndices(_)
SequentialIndices(n) ==
    IF n = 0 THEN <<>>
    ELSE Append(SequentialIndices(n - 1), Nonzero(target_lvls, n - 1))

RECURSIVE SequentialFeats(_)
SequentialFeats(n) ==
    IF n = 0 THEN <<>>
    ELSE IF RaisedAt(n - 1)
         THEN SequentialFeats(n - 1)
         ELSE Append(SequentialFeats(n - 1),
                     RoILayer(Feats(NumLevels)[n],
                              IndexSelect(rois, Nonzero(target_lvls, n - 1))))

SamePoolerOutcomes ==
    /\ Len(calls) <= Len(past[1].calls)
    /\ \A j \in 1..Len(calls) : calls[j].raised = past[1].calls[j].raised

\* C12: forward and map_roi_levels are pure.  After a call the extractor's
\* configuration and the caller's rois are what they were, and a later call
\* with the same inputs computes the same level assignment, hands the
\* poolers the same inputs and, the poolers behaving as before, ends with
\* the same output.
C12_Pure ==
    past # <<>> =>
        /\ featmap_strides = past[1].featmap_strides
        /\ finest_scale = past[1].finest_scale
        /\ arg_rois = past[1].arg_rois
        /\ roi_scale_factor = past[1].roi_scale_factor
        /\ (pc # "idle" /\ NumLevels > 1) =>
               target_lvls =
                   map_roi_levels(past[1].arg_rois, NumLevels,
                                  past[1].finest_scale, nan_long)
        /\ (pc # "idle" /\ NumLevels > 1) =>
               target_lvls = past[1].target_lvls
        /\ (pc # "idle" /\ SamePoolerOutcomes) =>
               \A j \in 1..Len(calls) : calls[j] = past[1].calls[j]
        /\ (Finished /\ SamePoolerOutcomes) => Outcome = past[1].outcome

\* A second multi-level call with a rescale factor has returned, the first
\* one having returned two RoIs pooled on different levels.
C12_Witness ==
    /\ past # <<>>
    /\ pc = "returned"
    /\ NumLevels = 3
    /\ roi_scale_factor = 2
    /\ Len(arg_rois) = 2
    /\ target_lvls[1] # target_lvls[2]
    /\ past[1].outcome.pc = "returned"
    /\ Len(result) = 2

\* The RoIs assigned to a level whose pooler raised.
RoisOnRaisedLevels ==
    { i \in 1..Len(arg_rois) :
        \E j \in 1..Len(calls) :
            calls[j].raised /\ target_lvls[i] = calls[j].level }

\* C13: with K > 1, after the per-level loop the concatenated index list is
\* a permutation of the N RoI indices, the concatenated feature rows number
\* N minus the RoIs assigned to levels whose pooler raised, and the two have
\* equal length exactly when no pooler raised on a non-empty level.
C13_IndexAndRowCounts ==
    LoopDone =>
        LET cat_indices == Cat(indices)
            cat_feats   == Cat(roi_feats)
        IN  /\ Len(cat_indices) = Len(arg_rois)
            /\ { cat_indices[p] : p \in 1..Len(cat_indices) }
                   = 1..Len(arg_rois)
            /\ Len(cat_feats)
                   = Len(arg_rois) - Cardinality(RoisOnRaisedLevels)
            /\ (Len(cat_indices) = Len(cat_feats))
                   <=> ~ \E j \in 1..Len(calls) : FailedOnNonEmpty(calls[j])

\* The network the last optimize call found in the task's model.
ModelBeforeOptimize ==
    [xml |-> optimize_call.entities[optimize_call.task.model]
                 .data["openvino.xml"],
     bin |-> optimize_call.entities[optimize_call.task.model]
                 .data["openvino.bin"]]

\* C14: optimize replaces the task's model and inferencer only on success.
\* With an optimization_type other than POT it raises ValueError and the
\* task's model, its inferencer and output_model are untouched.  When the
\* loaded model already has FakeQuantize nodes it returns with
\* output_model.model_status FAILED, no data written into output_model and
\* the task's model and inferencer unchanged.  Only the path on which the
\* quantised model was produced writes output_model's data, sets status
\* SUCCESS, makes output_model the task's model and reloads the inferencer.
C14_ReplacedOnlyOnSuccess ==
    optimize_call # NoCall =>
        LET c   == optimize_call
            out == optimize_call.output_model
        IN  /\ c.optimization_type # "POT" =>
                   /\ c.outcome = "ValueError"
                   /\ task = c.task
                   /\ entities = c.entities
            /\ (c.optimization_type = "POT" /\ c.reached # "load_model"
                   /\ HasFakeQuantize(ModelBeforeOptimize)) =>
                   /\ c.outcome = "returned"
                   /\ entities[out].model_status = "FAILED"
                   /\ entities[out].data = c.entities[out].data
                   /\ \A m \in ModelIds \ {out} : entities[m] = c.entities[m]
                   /\ task = c.task
            /\ (\/ task.model # c.task.model
                \/ task.inferencer # c.task.inferencer
                \/ entities[out].data # c.entities[out].data
                \/ (entities[out].model_status = "SUCCESS"
                       /\ c.entities[out].model_status # "SUCCESS")) =>
                   /\ c.optimization_type = "POT"
                   /\ ~HasFakeQuantize(ModelBeforeOptimize)
                   /\ c.reached \in {"load_inferencer", "end"}
                   /\ entities[out].model_status = "SUCCESS"
                   /\ entities[out].data["openvino.xml"] = QuantizedNet.xml
                   /\ task.model = out
            /\ task.inferencer # c.task.inferencer => c.outcome = "returned"
            /\ (c.outcome = "returned" /\ c.optimization_type = "POT"
                   /\ ~HasFakeQuantize(ModelBeforeOptimize)) =>
                   /\ entities[out].model_status = "SUCCESS"
                   /\ task.model = out
                   /\ task.inferencer =
                          OpenVINODetectionInferencer(
                              task.hparams_threshold,
                              entities[out].data["openvino.xml"],
                              entities[out].data["openvino.bin"])

\* A float model was optimised: the call returned with the task's model
\* replaced by output_model and a new inferencer.
C14_Witness ==
    /\ optimize_call # NoCall
    /\ optimize_call.outcome = "returned"
    /\ optimize_call.reached = "end"
    /\ task.model = optimize_call.output_model
    /\ task.model # optimize_call.task.model
    /\ task.inferencer # optimize_call.task.inferencer
    /\ entities[task.model].model_status = "SUCCESS"

\* The number of cancel hooks in a hook list.
CancelHooks(hooks) ==
    Cardinality({ i \in 1..Len(hooks) : hooks[i].type = "CancelTrainingHook" })

\* Whether the config patch_config was first given asks for an epoch-based
\* runner: it has none (the default is EpochBasedRunner) or names one.
EpochBasedAtFirst ==
    \/ "runner" \notin patch_calls.first.keys
    \/ is_epoch_based_runner(patch_calls.first.runner)

\* C15: after any number of patch_config calls on the same config that got
\* as far as the runner and hook steps, there are max(1, the number before
\* the first call) CancelTrainingHook entries in custom_hooks, runner.type is
\* EpochRunnerWithCancel or IterBasedRunnerWithCancel, and an epoch-based
\* runner has stayed epoch-based and an iteration-based one iteration-based.
\* In no state at all is there a cancel hook more than that.
C15_OneCancelHook ==
    patch_calls.n > 0 =>
        LET before == CancelHooks(patch_calls.first.custom_hooks)
            most   == IF before > 1 THEN before ELSE 1
        IN  /\ CancelHooks(config.custom_hooks) <= most
            /\ ~(patch_calls.outcome = "AttributeError"
                    /\ patch_calls.line = 47) =>
                   /\ CancelHooks(config.custom_hooks) = most
                   /\ config.runner.type
                          \in {EpochRunnerWithCancel, IterBasedRunnerWithCancel}
                   /\ is_epoch_based_runner(config.runner) = EpochBasedAtFirst
                   /\ EpochBasedAtFirst
                          => config.runner.type = EpochRunnerWithCancel
                   /\ ~EpochBasedAtFirst
                          => config.runner.type = IterBasedRunnerWithCancel

\* A second call has returned on a config that came with one cancel hook
\* and an EpochBasedRunner.
C15_Witness ==
    /\ patch_calls.n = 2
    /\ patch_calls.outcome = "returned"
    /\ patch_calls.first.runner.type = EpochBasedRunner
    /\ CancelHooks(patch_calls.first.custom_hooks) = 1
    /\ CancelHooks(config.custom_hooks) = 1
    /\ config.runner.type = EpochRunnerWithCancel

=============================================================================
